---------------------------- MODULE Spec2Model ----------------------------
(***************************************************************************)
(* Model of src/lua_saml.c: the Lua binding of the saml library (libxml2   *)
(* and xmlsec).  Every exported function of saml_funcs is one action.  A   *)
(* handler is a pure operator from its Lua arguments and the results of    *)
(* the backend routines it calls to an outcome: whether a Lua error was    *)
(* raised (luaL_argcheck, luaL_checktype, luaL_checklstring longjmp out    *)
(* of the handler), the values returned, and the trace of backend          *)
(* routines invoked, in order.  The state of the libraries (life cycle,    *)
(* documents, keys, keys managers) is updated by folding the effects of    *)
(* the traced routines.                                                    *)
(***************************************************************************)
EXTENDS Integers, Sequences, FiniteSets, TLC

VARIABLES
  lib,        \* life cycle of libxml2/xmlsec: "uninit", "ready", "down"
  inits,      \* number of successful saml_init calls
  shutdowns,  \* number of saml_shutdown calls
  docs,       \* xmlDoc* -> "free" (never allocated), "live", "freed"
  keys,       \* xmlSecKey* -> "free", "live", "released"
  adopted,    \* xmlSecKey* -> xmlSecKeysMngr* -> times the manager adopted the key
  released,   \* xmlSecKey* -> times a destroyed manager released the key
  mngrs,      \* xmlSecKeysMngr* -> "free", "live", "destroyed"
  call        \* the last call: op, args, raised, ret, trace

vars == <<lib, inits, shutdowns, docs, keys, adopted, released, mngrs, call>>

---------------------------------------------------------------------------
\* Bounds of the model.
MaxDocs == 1
MaxKeys == 2
MaxMngrs == 2
MaxKeyList == 2
MaxLifecycleCalls == 2
MaxCode == 2
MaxAttrs == 2
MaxValues == 2

NULL == 0
DocPtr == 1..MaxDocs
\* The document sign_xml parses for itself: an allocation outside the caller's pool.
TmpDoc == MaxDocs + 1
KeyPtr == 1..MaxKeys
MngrPtr == 1..MaxMngrs

---------------------------------------------------------------------------
\* Lua values.
Nil == [t |-> "nil"]
Bool(b) == [t |-> "bool", b |-> b]
Str(s) == [t |-> "str", s |-> s]
\* lua_pushlightuserdata: wraps any pointer, NULL included.
LUD(p) == [t |-> "lud", p |-> p]
\* A table: named fields f and array part arr.
Table(f, arr) == [t |-> "table", f |-> f, arr |-> arr]
NoFields == [x \in {} |-> Nil]

\* lua_settop(L, n): missing arguments become nil, extra ones are dropped.
SetTop(args, n) == [i \in 1..n |-> IF i <= Len(args) THEN args[i] ELSE Nil]
\* lua_touserdata: the pointer of a userdata, NULL for anything else.
ToUserdata(v) == IF v.t = "lud" THEN v.p ELSE NULL
\* lua_toboolean: false for nil and false.
ToBoolean(v) == ~(v.t = "nil" \/ (v.t = "bool" /\ ~v.b))
\* luaL_checklstring accepts strings (and numbers, which no caller of the
\* model passes), raises otherwise.
IsString(v) == v.t \in {"str", "num"}
ToLString(v) == v.s
IsNil(v) == v.t = "nil"
IsTable(v) == v.t = "table"
\* lua_getfield / lua_rawgeti / lua_objlen on a table.
GetField(tb, k) == IF k \in DOMAIN tb.f THEN tb.f[k] ELSE Nil
RawGetI(tb, i) == IF i \in 1..Len(tb.arr) THEN tb.arr[i] ELSE Nil
ObjLen(tb) == Len(tb.arr)
\* lua_pushboolean(L, b): true iff the C int is not 0.
PushBoolean(n) == Bool(n # 0)

\* A C string that is NULL.
NullStr == "<NULL>"

---------------------------------------------------------------------------
\* Outcomes of a handler.
Raise(trace) == [raised |-> TRUE, ret |-> <<>>, trace |-> trace]
Return(ret, trace) == [raised |-> FALSE, ret |-> ret, trace |-> trace]

\* The backend routines named in a trace.
Fns(trace) == {trace[i].fn : i \in 1..Len(trace)}

---------------------------------------------------------------------------
\* init: saml_init is reached only with a table whose rock_dir is a string;
\* r is saml_init's result.
init(args, r) ==
  LET a == SetTop(args, 1) IN
  IF ~IsTable(a[1]) THEN Raise(<<>>)
  ELSE LET debug == GetField(a[1], "debug")
           rock_dir == GetField(a[1], "rock_dir")
       IN IF ~IsString(rock_dir) THEN Raise(<<>>)
          ELSE LET t == <<[fn |-> "saml_init", debug |-> ToBoolean(debug),
                           rock_dir |-> ToLString(rock_dir), res |-> r]>>
               IN IF r < 0 THEN Return(<<Str("saml initialization failed")>>, t)
                  ELSE Return(<<Nil>>, t)

\* shutdown: calls saml_shutdown unconditionally and returns nothing.
shutdown(args) == Return(<<>>, <<[fn |-> "saml_shutdown"]>>)

\* parse: d is what xmlReadMemory returns (NULL or a new document).
parse(args, d) ==
  LET a == SetTop(args, 1) IN
  IF ~IsString(a[1]) THEN Raise(<<>>)
  ELSE LET t == <<[fn |-> "xmlReadMemory", buf |-> ToLString(a[1]), res |-> d]>>
       IN IF d = NULL THEN Return(<<Nil>>, t) ELSE Return(<<LUD(d)>>, t)

\* parse_file: d is what xmlReadFile returns.
parse_file(args, d) ==
  LET a == SetTop(args, 1) IN
  IF ~IsString(a[1]) THEN Raise(<<>>)
  ELSE LET t == <<[fn |-> "xmlReadFile", buf |-> ToLString(a[1]), res |-> d]>>
       IN IF d = NULL THEN Return(<<Nil>>, t) ELSE Return(<<LUD(d)>>, t)

\* serialize: buf is the text xmlDocDumpMemory produces.
serialize(args, buf) ==
  LET a == SetTop(args, 1)
      doc == ToUserdata(a[1])
  IN IF doc = NULL THEN Raise(<<>>)
     ELSE Return(<<Str(buf)>>, <<[fn |-> "xmlDocDumpMemory", doc |-> doc],
                                 [fn |-> "xmlFree"]>>)

free_doc(args) ==
  LET a == SetTop(args, 1)
      doc == ToUserdata(a[1])
  IN IF doc = NULL THEN Raise(<<>>)
     ELSE Return(<<>>, <<[fn |-> "xmlFreeDoc", doc |-> doc]>>)

\* validate_doc: r is saml_doc_validate's int, pushed as a boolean.
validate_doc(args, r) ==
  LET a == SetTop(args, 1)
      doc == ToUserdata(a[1])
  IN IF doc = NULL THEN Raise(<<>>)
     ELSE Return(<<PushBoolean(r)>>, <<[fn |-> "saml_doc_validate", doc |-> doc]>>)

\* issuer: s is saml_doc_issuer's result, NullStr when absent.
issuer(args, s) ==
  LET a == SetTop(args, 1)
      doc == ToUserdata(a[1])
  IN IF doc = NULL THEN Raise(<<>>)
     ELSE LET t == <<[fn |-> "saml_doc_issuer", doc |-> doc]>>
          IN IF s = NullStr THEN Return(<<Nil>>, t)
             ELSE Return(<<Str(s)>>, t \o <<[fn |-> "xmlFree"]>>)

\* session_index: s is saml_doc_session_index's result, NullStr when absent.
session_index(args, s) ==
  LET a == SetTop(args, 1)
      doc == ToUserdata(a[1])
  IN IF doc = NULL THEN Raise(<<>>)
     ELSE LET t == <<[fn |-> "saml_doc_session_index", doc |-> doc]>>
          IN IF s = NullStr THEN Return(<<Nil>>, t)
             ELSE Return(<<Str(s)>>, t \o <<[fn |-> "xmlFree"]>>)

---------------------------------------------------------------------------
\* lua_settable(L, -3) on the string-keyed or integer-keyed part of a table:
\* storing nil removes the key, so a key with a nil value is no entry.
SetTable(f, k, v) ==
  IF IsNil(v) THEN [x \in DOMAIN f \ {k} |-> f[x]]
  ELSE [x \in DOMAIN f \cup {k} |-> IF x = k THEN v ELSE f[x]]

\* attrs_list with the value stored under j, not j + 1 (a 0-based list).
RECURSIVE attrs_list_zero_based(_, _, _)
attrs_list_zero_based(values, j, arr) ==
  IF j >= Len(values) THEN arr
  ELSE attrs_list_zero_based(values, j + 1,
         SetTable(arr, j,
                  IF values[j + 1] = NullStr THEN Nil ELSE Str(values[j + 1])))

\* The inner loop of attrs: the list built for an attribute of two or more
\* values, j counting from 0 as in the source.
RECURSIVE attrs_list(_, _, _)
attrs_list(values, j, arr) ==
  IF j >= Len(values) THEN arr
  ELSE attrs_list(values, j + 1,
         SetTable(arr, j + 1,
                  IF values[j + 1] = NullStr THEN Nil ELSE Str(values[j + 1])))

\* The switch on num_values: the Lua value stored under the attribute's name.
attrs_value(at) ==
  LET n == Len(at.values) IN
  CASE n = 0 -> Nil
    [] n = 1 -> IF at.values[1] = NullStr THEN Nil ELSE Str(at.values[1])
    [] OTHER -> Table(NoFields, attrs_list(at.values, 0, NoFields))

\* The outer loop of attrs over the extracted array, i counting from 0.
RECURSIVE attrs_table(_, _, _)
attrs_table(as, i, f) ==
  IF i >= Len(as) THEN f
  ELSE attrs_table(as, i + 1,
         IF as[i + 1].name # NullStr
         THEN SetTable(f, as[i + 1].name, attrs_value(as[i + 1]))
         ELSE f)

\* attrs: r is saml_doc_attrs' result and as the array it fills in.
attrs(args, r, as) ==
  LET a == SetTop(args, 1)
      doc == ToUserdata(a[1])
  IN IF doc = NULL THEN Raise(<<>>)
     ELSE LET t == <<[fn |-> "saml_doc_attrs", doc |-> doc, res |-> r, attrs |-> as]>>
          IN IF r < 0 THEN Return(<<Nil>>, t)
             ELSE Return(<<Table(attrs_table(as, 0, NoFields), NoFields)>>,
                         t \o <<[fn |-> "saml_free_attrs"]>>)

---------------------------------------------------------------------------
\* load_key: k is what xmlSecCryptoAppKeyLoadMemory returns.
load_key(args, k) ==
  LET a == SetTop(args, 1) IN
  IF ~IsString(a[1]) THEN Raise(<<>>)
  ELSE LET t == <<[fn |-> "xmlSecCryptoAppKeyLoadMemory", buf |-> ToLString(a[1]),
                   format |-> "Pem", res |-> k]>>
       IN IF k = NULL THEN Return(<<Nil>>, t) ELSE Return(<<LUD(k)>>, t)

\* load_key_file: k is what xmlSecCryptoAppKeyLoad returns.
load_key_file(args, k) ==
  LET a == SetTop(args, 1) IN
  IF ~IsString(a[1]) THEN Raise(<<>>)
  ELSE LET t == <<[fn |-> "xmlSecCryptoAppKeyLoad", buf |-> ToLString(a[1]),
                   format |-> "Pem", res |-> k]>>
       IN IF k = NULL THEN Return(<<Nil>>, t) ELSE Return(<<LUD(k)>>, t)

\* key_load_cert: r is xmlSecCryptoAppKeyCertLoadMemory's result.
key_load_cert(args, r) ==
  LET a == SetTop(args, 2)
      key == ToUserdata(a[1])
  IN IF key = NULL THEN Raise(<<>>)
     ELSE IF ~IsString(a[2]) THEN Raise(<<>>)
     ELSE LET t == <<[fn |-> "xmlSecCryptoAppKeyCertLoadMemory", key |-> key,
                      buf |-> ToLString(a[2]), res |-> r]>>
          IN IF r < 0 THEN Return(<<Bool(FALSE)>>, t) ELSE Return(<<Bool(TRUE)>>, t)

\* key_load_cert_file: r is xmlSecCryptoAppKeyCertLoad's result.
key_load_cert_file(args, r) ==
  LET a == SetTop(args, 2)
      key == ToUserdata(a[1])
  IN IF key = NULL THEN Raise(<<>>)
     ELSE IF ~IsString(a[2]) THEN Raise(<<>>)
     ELSE LET t == <<[fn |-> "xmlSecCryptoAppKeyCertLoad", key |-> key,
                      buf |-> ToLString(a[2]), res |-> r]>>
          IN IF r < 0 THEN Return(<<Bool(FALSE)>>, t) ELSE Return(<<Bool(TRUE)>>, t)

\* load_cert: pushes whatever xmlSecCryptoAppKeyLoadMemory returned as a light
\* userdata, without a NULL check.
load_cert(args, k) ==
  LET a == SetTop(args, 1) IN
  IF ~IsString(a[1]) THEN Raise(<<>>)
  ELSE Return(<<LUD(k)>>,
              <<[fn |-> "xmlSecCryptoAppKeyLoadMemory", buf |-> ToLString(a[1]),
                 format |-> "CertPem", res |-> k]>>)

\* load_cert_file: k is what xmlSecCryptoAppKeyLoad returns.
load_cert_file(args, k) ==
  LET a == SetTop(args, 1) IN
  IF ~IsString(a[1]) THEN Raise(<<>>)
  ELSE LET t == <<[fn |-> "xmlSecCryptoAppKeyLoad", buf |-> ToLString(a[1]),
                   format |-> "CertPem", res |-> k]>>
       IN IF k = NULL THEN Return(<<Nil>>, t) ELSE Return(<<LUD(k)>>, t)

\* The adoption loop of create_keys_mngr, i counting from 1 as in the source;
\* adoptRes[i] is the result of the i-th xmlSecCryptoAppDefaultKeysMngrAdoptKey.
RECURSIVE create_keys_mngr_loop(_, _, _, _, _)
create_keys_mngr_loop(tb, i, mngr, adoptRes, t) ==
  IF ~(i < ObjLen(tb) + 1) THEN Return(<<LUD(mngr), Nil>>, t)
  ELSE LET key == ToUserdata(RawGetI(tb, i)) IN
       IF key = NULL THEN Raise(t)
       ELSE LET t2 == Append(t, [fn |-> "xmlSecCryptoAppDefaultKeysMngrAdoptKey",
                                 mngr |-> mngr, key |-> key, res |-> adoptRes[i]])
            IN IF adoptRes[i] # 0
               THEN Return(<<Nil, Str("adopt key failed")>>,
                           Append(t2, [fn |-> "xmlSecKeysMngrDestroy", mngr |-> mngr]))
               ELSE create_keys_mngr_loop(tb, i + 1, mngr, adoptRes, t2)

\* create_keys_mngr: mngr is what xmlSecKeysMngrCreate returns, initRes the
\* result of xmlSecCryptoAppDefaultKeysMngrInit.
create_keys_mngr(args, mngr, initRes, adoptRes) ==
  LET a == SetTop(args, 1) IN
  IF ~IsTable(a[1]) THEN Raise(<<>>)
  ELSE LET t1 == <<[fn |-> "xmlSecKeysMngrCreate", res |-> mngr]>> IN
       IF mngr = NULL THEN Return(<<Nil, Str("create keys manager failed")>>, t1)
       ELSE LET t2 == Append(t1, [fn |-> "xmlSecCryptoAppDefaultKeysMngrInit",
                                  mngr |-> mngr, res |-> initRes])
            IN IF initRes < 0
               THEN Return(<<Nil, Str("initialize keys manager failed")>>,
                           Append(t2, [fn |-> "xmlSecKeysMngrDestroy", mngr |-> mngr]))
               ELSE create_keys_mngr_loop(a[1], 1, mngr, adoptRes, t2)

---------------------------------------------------------------------------
\* The transform ids xmlSecTransformIdsGet() registers, by href: one
\* signature algorithm stands for the registry's table.
RsaSha256Href == "http://www.w3.org/2001/04/xmldsig-more#rsa-sha256"
RsaSha256Id == 1
\* xmlSecTransformIdListFindByHref: the id registered under href, or NULL.
FindByHref(href) == IF href = RsaSha256Href THEN RsaSha256Id ELSE NULL

find_transform_by_href(args) ==
  LET a == SetTop(args, 1) IN
  IF ~IsString(a[1]) THEN Raise(<<>>)
  ELSE LET id == FindByHref(ToLString(a[1]))
           t == <<[fn |-> "xmlSecTransformIdListFindByHref",
                   buf |-> ToLString(a[1]), res |-> id]>>
       IN IF id = NULL THEN Return(<<Nil>>, t) ELSE Return(<<LUD(id)>>, t)

\* sign_binary without the check of transform_id.
sign_binary_unchecked_transform(args, sig) ==
  LET a == SetTop(args, 3)
      key == ToUserdata(a[1])
      transform_id == ToUserdata(a[2])
  IN IF key = NULL THEN Raise(<<>>)
     ELSE IF ~IsString(a[3]) THEN Raise(<<>>)
     ELSE LET t == <<[fn |-> "saml_sign_binary", key |-> key, tid |-> transform_id,
                      buf |-> ToLString(a[3])]>>
          IN IF sig = NullStr THEN Return(<<Nil, Str("saml sign failed")>>, t)
             ELSE Return(<<Str(sig), Nil>>,
                         Append(t, [fn |-> "xmlSecTransformCtxDestroy"]))

\* sign_binary: sig is the signature saml_sign_binary's context holds,
\* NullStr when it returns no context.
sign_binary(args, sig) ==
  LET a == SetTop(args, 3)
      key == ToUserdata(a[1])
      transform_id == ToUserdata(a[2])
  IN IF key = NULL THEN Raise(<<>>)
     ELSE IF transform_id = NULL THEN Raise(<<>>)
     ELSE IF ~IsString(a[3]) THEN Raise(<<>>)
     ELSE LET t == <<[fn |-> "saml_sign_binary", key |-> key, tid |-> transform_id,
                      buf |-> ToLString(a[3])]>>
          IN IF sig = NullStr THEN Return(<<Nil, Str("saml sign failed")>>, t)
             ELSE Return(<<Str(sig), Nil>>,
                         Append(t, [fn |-> "xmlSecTransformCtxDestroy"]))

\* sign_get_opts on the value o at stack index i: the options filled in and
\* the number of stack slots the caller is told to pop, or a raised error.
OptsRaise == [raised |-> TRUE]
Opts(id_attr, ns, el, pop) ==
  [raised |-> FALSE, id_attr |-> id_attr, insert_after_ns |-> ns,
   insert_after_el |-> el, pop |-> pop]
sign_get_opts(o, i) ==
  IF IsNil(o) THEN Opts(NullStr, NullStr, NullStr, i)
  ELSE IF ~IsTable(o) THEN OptsRaise
  ELSE LET ia == GetField(o, "id_attr")
           ins == GetField(o, "insert_after")
       IN IF ~IsNil(ia) /\ ~IsString(ia) THEN OptsRaise
          ELSE LET id_attr == IF IsNil(ia) THEN NullStr ELSE ToLString(ia) IN
               IF IsNil(ins) THEN Opts(id_attr, NullStr, NullStr, i + 2)
               ELSE IF ~IsTable(ins) THEN OptsRaise
               ELSE IF ObjLen(ins) # 2 THEN OptsRaise
               ELSE IF ~IsString(RawGetI(ins, 1)) THEN OptsRaise
               ELSE IF ~IsString(RawGetI(ins, 2)) THEN OptsRaise
               ELSE Opts(id_attr, ToLString(RawGetI(ins, 1)),
                         ToLString(RawGetI(ins, 2)), i + 4)

\* sign_doc: res is saml_sign_doc's result.  The third luaL_argcheck tests
\* key, not doc, so it never fails once the first has passed.
sign_doc(args, res) ==
  LET a == SetTop(args, 4)
      key == ToUserdata(a[1])
      transform_id == ToUserdata(a[2])
      doc == ToUserdata(a[3])
  IN IF key = NULL THEN Raise(<<>>)
     ELSE IF transform_id = NULL THEN Raise(<<>>)
     ELSE IF key = NULL THEN Raise(<<>>)
     ELSE LET opts == sign_get_opts(a[4], 4) IN
          IF opts.raised THEN Raise(<<>>)
          ELSE LET t == <<[fn |-> "saml_sign_doc", key |-> key, tid |-> transform_id,
                           doc |-> doc, id_attr |-> opts.id_attr,
                           insert_after_ns |-> opts.insert_after_ns,
                           insert_after_el |-> opts.insert_after_el]>>
               IN IF res = 0 THEN Return(<<Nil>>, t)
                  ELSE Return(<<Str("saml sign failed")>>, t)

\* sign_xml: doc is what xmlReadMemory returns, res saml_sign_doc's result,
\* buf the text xmlDocDumpMemory produces.
sign_xml(args, doc, res, buf) ==
  LET a == SetTop(args, 4)
      key == ToUserdata(a[1])
      transform_id == ToUserdata(a[2])
  IN IF key = NULL THEN Raise(<<>>)
     ELSE IF transform_id = NULL THEN Raise(<<>>)
     ELSE IF ~IsString(a[3]) THEN Raise(<<>>)
     ELSE LET t1 == <<[fn |-> "xmlReadMemory", buf |-> ToLString(a[3]), res |-> doc]>> IN
          IF doc = NULL THEN Return(<<Nil, Str("unable to parse xml string")>>, t1)
          ELSE LET opts == sign_get_opts(a[4], 4) IN
               IF opts.raised THEN Raise(t1)
               ELSE LET t2 == Append(t1, [fn |-> "saml_sign_doc", key |-> key,
                                          tid |-> transform_id, doc |-> doc,
                                          id_attr |-> opts.id_attr,
                                          insert_after_ns |-> opts.insert_after_ns,
                                          insert_after_el |-> opts.insert_after_el])
                        free == <<[fn |-> "xmlFreeDoc", doc |-> doc]>>
                    IN IF res = 0
                       THEN Return(<<Str(buf), Nil>>,
                                   t2 \o <<[fn |-> "xmlDocDumpMemory", doc |-> doc],
                                           [fn |-> "xmlFree"]>> \o free)
                       ELSE Return(<<Nil, Str("saml sign failed")>>, t2 \o free)

\* verify_binary: res is saml_verify_binary's result.
verify_binary(args, res) ==
  LET a == SetTop(args, 4)
      cert == ToUserdata(a[1])
      transform_id == ToUserdata(a[2])
  IN IF cert = NULL THEN Raise(<<>>)
     ELSE IF transform_id = NULL THEN Raise(<<>>)
     ELSE IF ~IsString(a[3]) THEN Raise(<<>>)
     ELSE IF ~IsString(a[4]) THEN Raise(<<>>)
     ELSE LET t == <<[fn |-> "saml_verify_binary", key |-> cert, tid |-> transform_id,
                      buf |-> ToLString(a[3]), sig |-> ToLString(a[4]), res |-> res]>>
          IN IF res < 0 THEN Return(<<Nil, Str("saml verify failed")>>, t)
             ELSE Return(<<PushBoolean(1 - res), Nil>>, t)

\* verify_doc: res is saml_verify_doc's result.  After lua_settop(L, 3) an
\* omitted options argument is nil; a table goes through luaL_checklstring
\* on its id_attr field whether or not the field is there.
verify_doc(args, res) ==
  LET a == SetTop(args, 3)
      mngr == ToUserdata(a[1])
      doc == ToUserdata(a[2])
  IN IF mngr = NULL THEN Raise(<<>>)
     ELSE IF doc = NULL THEN Raise(<<>>)
     ELSE IF ~IsNil(a[3]) /\ ~IsTable(a[3]) THEN Raise(<<>>)
     ELSE IF ~IsNil(a[3]) /\ ~IsString(GetField(a[3], "id_attr")) THEN Raise(<<>>)
     ELSE LET id_attr == IF IsNil(a[3]) THEN NullStr
                         ELSE ToLString(GetField(a[3], "id_attr"))
              t == <<[fn |-> "saml_verify_doc", mngr |-> mngr, doc |-> doc,
                      id_attr |-> id_attr, res |-> res]>>
          IN IF res < 0 THEN Return(<<Nil, Str("saml verify failed")>>, t)
             ELSE Return(<<PushBoolean(1 - res), Nil>>, t)

---------------------------------------------------------------------------
\* The effect of one traced backend routine on the libraries' state w.
Effect(w, e) ==
  CASE e.fn = "saml_init" ->
         IF e.res >= 0 THEN [w EXCEPT !.lib = "ready", !.inits = @ + 1] ELSE w
    [] e.fn = "saml_shutdown" ->
         [w EXCEPT !.lib = "down", !.shutdowns = @ + 1]
    [] e.fn \in {"xmlReadMemory", "xmlReadFile"} ->
         IF e.res \in DocPtr THEN [w EXCEPT !.docs[e.res] = "live"] ELSE w
    [] e.fn = "xmlFreeDoc" ->
         IF e.doc \in DocPtr THEN [w EXCEPT !.docs[e.doc] = "freed"] ELSE w
    [] e.fn \in {"xmlSecCryptoAppKeyLoadMemory", "xmlSecCryptoAppKeyLoad"} ->
         IF e.res \in KeyPtr THEN [w EXCEPT !.keys[e.res] = "live"] ELSE w
    [] e.fn = "xmlSecKeysMngrCreate" ->
         IF e.res \in MngrPtr THEN [w EXCEPT !.mngrs[e.res] = "live"] ELSE w
    [] e.fn = "xmlSecCryptoAppDefaultKeysMngrAdoptKey" ->
         \* on success the manager owns the key
         IF e.res = 0 THEN [w EXCEPT !.adopted[e.key][e.mngr] = @ + 1] ELSE w
    [] e.fn = "xmlSecKeysMngrDestroy" ->
         \* destroys the manager and every key it adopted, once per adoption
         [w EXCEPT !.mngrs[e.mngr] = "destroyed",
                   !.released = [k \in KeyPtr |-> @[k] + w.adopted[k][e.mngr]],
                   !.keys = [k \in KeyPtr |->
                               IF w.adopted[k][e.mngr] > 0 THEN "released" ELSE @[k]]]
    [] OTHER -> w

RECURSIVE Apply(_, _, _)
Apply(w, trace, i) ==
  IF i > Len(trace) THEN w ELSE Apply(Effect(w, trace[i]), trace, i + 1)

World ==
  [lib |-> lib, inits |-> inits, shutdowns |-> shutdowns, docs |-> docs,
   keys |-> keys, adopted |-> adopted, released |-> released, mngrs |-> mngrs]

\* No call is in progress: the Lua caller is between two calls.
Idle == [op |-> "none", args |-> <<>>, raised |-> FALSE, ret |-> <<>>, trace |-> <<>>]

\* One call of an exported function: the
\* outcome o of the handler is recorded and the effects of its backend calls
\* applied.  A manager the call created and neither destroyed nor returned is
\* alive with no handle: "leaked".
Step(op, args, o) ==
  LET w == Apply(World, o.trace, 1) IN
  /\ call' = [op |-> op, args |-> args, raised |-> o.raised, ret |-> o.ret,
              trace |-> o.trace]
  /\ lib' = w.lib
  /\ inits' = w.inits
  /\ shutdowns' = w.shutdowns
  /\ docs' = w.docs
  /\ keys' = w.keys
  /\ adopted' = w.adopted
  /\ released' = w.released
  /\ mngrs' = [m \in MngrPtr |->
                IF mngrs[m] = "free" /\ w.mngrs[m] = "live"
                   /\ (o.raised \/ o.ret[1] # LUD(m))
                THEN "leaked" ELSE w.mngrs[m]]

Init ==
  /\ lib = "uninit"
  /\ inits = 0
  /\ shutdowns = 0
  /\ docs = [d \in DocPtr |-> "free"]
  /\ keys = [k \in KeyPtr |-> "free"]
  /\ adopted = [k \in KeyPtr |-> [m \in MngrPtr |-> 0]]
  /\ released = [k \in KeyPtr |-> 0]
  /\ mngrs = [m \in MngrPtr |-> "free"]
  /\ call = Idle

---------------------------------------------------------------------------
\* What the caller can pass.  Handles are those the module returned earlier.
GoodXml == "<Response/>"
BadXml == "<Response"
GoodPem == "-----BEGIN-----"
BadPem == "junk"
BadHref == "not-a-real-uri"

\* A value of the wrong type for every parameter: no userdata, table or string.
Junk == Bool(TRUE)

FreeDocs == {d \in DocPtr : docs[d] = "free"}
FreeKeys == {k \in KeyPtr : keys[k] = "free"}
FreeMngrs == {m \in MngrPtr : mngrs[m] = "free"}

DocVals == {Nil, Junk} \cup {LUD(d) : d \in {x \in DocPtr : docs[x] # "free"}}
KeyVals == {Nil} \cup {LUD(k) : k \in {x \in KeyPtr : keys[x] # "free"}}
MngrVals == {Nil} \cup {LUD(m) : m \in {x \in MngrPtr : mngrs[x] = "live"}}
TidVals == {Nil, LUD(RsaSha256Id)}
\* One-argument calls on a document: the argument may also be left out.
DocArgs == {<<>>} \cup {<<v>> : v \in DocVals}
StrArgs(S) == {<<>>, <<Junk>>} \cup {<<Str(x)>> : x \in S}

InitArgs ==
  {<<>>, <<Table(NoFields, <<>>)>>,
   <<Table([rock_dir |-> Str("/rocks")], <<>>)>>,
   <<Table([debug |-> Bool(TRUE), rock_dir |-> Str("/rocks")], <<>>)>>}

\* Option tables for sign_doc, sign_xml and verify_doc.
InsertAfterVals ==
  {Junk, Table(NoFields, <<Str("ns")>>), Table(NoFields, <<Str("ns"), Junk>>),
   Table(NoFields, <<Str("ns"), Str("Issuer")>>)}
OptVals ==
  {Nil, Junk, Table(NoFields, <<>>), Table([id_attr |-> Str("ID")], <<>>),
   Table([id_attr |-> Junk], <<>>)}
  \cup {Table([insert_after |-> v], <<>>) : v \in InsertAfterVals}
\* The trailing options argument: left out, or one of OptVals.
OptTail == {<<>>} \cup {<<v>> : v \in OptVals}
\* The option shapes the whole-module specification explores.
FewOptTail == {<<>>, <<Table([id_attr |-> Str("ID")], <<>>)>>}

\* Result codes of the backend's int-returning routines.
Codes == (0 - MaxCode)..MaxCode

\* What a parser or loader returns for text s: NULL for malformed text, and
\* NULL (out of memory) or a new object from free for well-formed text.
Loaded(s, good, free) == IF s = good THEN free \cup {NULL} ELSE {NULL}
ArgText(args) == IF Len(args) >= 1 /\ IsString(args[1]) THEN ToLString(args[1]) ELSE ""

\* What saml_doc_attrs can extract: attributes with a name (NullStr when the
\* Name is missing) and the texts of the AttributeValue children in document
\* order (NullStr for one without content).  A document holds at most
\* MaxAttrs attributes and MaxValues AttributeValue elements in all.
AttrNames == {NullStr, "email", "role"}
AttrTexts == {NullStr, "x", "y"}
SeqsUpTo(S, n) == UNION {[1..k -> S] : k \in 0..n}
RECURSIVE AttrListsOf(_, _)
AttrListsOf(n, budget) ==
  IF n = 0 THEN {<<>>}
  ELSE {<<>>} \cup
       UNION {{<<[name |-> nm, values |-> vs]>> \o rest :
                 nm \in AttrNames, rest \in AttrListsOf(n - 1, budget - Len(vs))} :
              vs \in SeqsUpTo(AttrTexts, budget)}
AttrLists == AttrListsOf(MaxAttrs, MaxValues)
\* The extractions the whole-module specification explores.
FewAttrLists ==
  {<<>>, <<[name |-> "email", values |-> <<"x">>]>>,
   <<[name |-> "role", values |-> <<"x", "y">>]>>}

---------------------------------------------------------------------------
\* One action per exported function (saml_funcs).
Call_init ==
  /\ call = Idle
  /\ inits < MaxLifecycleCalls
  /\ \E args \in InitArgs, r \in {-1, 0} : Step("init", args, init(args, r))

Call_shutdown ==
  /\ call = Idle
  /\ shutdowns < MaxLifecycleCalls
  /\ Step("shutdown", <<>>, shutdown(<<>>))

Call_parse ==
  /\ call = Idle
  /\ \E args \in StrArgs({GoodXml, BadXml}) :
       \E d \in Loaded(ArgText(args), GoodXml, FreeDocs) :
         Step("parse", args, parse(args, d))

Call_parse_file ==
  /\ call = Idle
  /\ \E args \in StrArgs({GoodXml, BadXml}) :
       \E d \in Loaded(ArgText(args), GoodXml, FreeDocs) :
         Step("parse_file", args, parse_file(args, d))

Call_serialize ==
  /\ call = Idle
  /\ \E args \in DocArgs : Step("serialize", args, serialize(args, GoodXml))

Call_free_doc ==
  /\ call = Idle
  /\ \E args \in DocArgs : Step("free_doc", args, free_doc(args))

Call_validate_doc ==
  /\ call = Idle
  /\ \E args \in DocArgs, r \in {0, 1} :
       Step("validate_doc", args, validate_doc(args, r))

Call_issuer ==
  /\ call = Idle
  /\ \E args \in DocArgs, s \in {NullStr, "idp"} :
       Step("issuer", args, issuer(args, s))

Call_session_index ==
  /\ call = Idle
  /\ \E args \in DocArgs, s \in {NullStr, "s1"} :
       Step("session_index", args, session_index(args, s))

\* saml_doc_attrs fills the array in only when it is called and succeeds.
Call_attrs(Lists) ==
  /\ call = Idle
  /\ \E args \in DocArgs, r \in {-1, 0} :
       \E as \in (IF r < 0 \/ ToUserdata(SetTop(args, 1)[1]) = NULL THEN {<<>>} ELSE Lists) :
         Step("attrs", args, attrs(args, r, as))

Call_load_key ==
  /\ call = Idle
  /\ \E args \in StrArgs({GoodPem, BadPem}) :
       \E k \in Loaded(ArgText(args), GoodPem, FreeKeys) :
         Step("load_key", args, load_key(args, k))

Call_load_key_file ==
  /\ call = Idle
  /\ \E args \in StrArgs({GoodPem, BadPem}) :
       \E k \in Loaded(ArgText(args), GoodPem, FreeKeys) :
         Step("load_key_file", args, load_key_file(args, k))

Call_key_load_cert ==
  /\ call = Idle
  /\ \E kv \in KeyVals, c \in {<<>>, <<Str(GoodPem)>>}, r \in {-1, 0} :
       Step("key_load_cert", <<kv>> \o c, key_load_cert(<<kv>> \o c, r))

Call_key_load_cert_file ==
  /\ call = Idle
  /\ \E kv \in KeyVals, c \in {<<>>, <<Str(GoodPem)>>}, r \in {-1, 0} :
       Step("key_load_cert_file", <<kv>> \o c, key_load_cert_file(<<kv>> \o c, r))

Call_load_cert ==
  /\ call = Idle
  /\ \E args \in StrArgs({GoodPem, BadPem}) :
       \E k \in Loaded(ArgText(args), GoodPem, FreeKeys) :
         Step("load_cert", args, load_cert(args, k))

Call_load_cert_file ==
  /\ call = Idle
  /\ \E args \in StrArgs({GoodPem, BadPem}) :
       \E k \in Loaded(ArgText(args), GoodPem, FreeKeys) :
         Step("load_cert_file", args, load_cert_file(args, k))

\* The key lists of up to n elements passed to create_keys_manager: key
\* handles and junk.
KeyLists(n) == SeqsUpTo((KeyVals \ {Nil}) \cup {Junk}, n)

Call_create_keys_mngr(n) ==
  /\ call = Idle
  /\ \E args \in {<<>>} \cup {<<Table(NoFields, l)>> : l \in KeyLists(n)} :
       \E mngr \in FreeMngrs \cup {NULL}, initRes \in {-1, 0},
          adoptRes \in [1..MaxKeyList -> {-1, 0}] :
         Step("create_keys_manager", args,
              create_keys_mngr(args, mngr, initRes, adoptRes))

Call_find_transform_by_href ==
  /\ call = Idle
  /\ \E args \in StrArgs({RsaSha256Href, BadHref}) :
       Step("find_transform_by_href", args, find_transform_by_href(args))

Call_sign_binary ==
  /\ call = Idle
  /\ \E kv \in KeyVals, tv \in TidVals, d \in {<<>>, <<Str("data")>>},
        sig \in {NullStr, "sig"} :
       Step("sign_binary", <<kv, tv>> \o d, sign_binary(<<kv, tv>> \o d, sig))

Call_sign_doc(Opt) ==
  /\ call = Idle
  /\ \E kv \in KeyVals, tv \in TidVals, dv \in DocVals, o \in Opt, res \in {-1, 0} :
       Step("sign_doc", <<kv, tv, dv>> \o o, sign_doc(<<kv, tv, dv>> \o o, res))

Call_sign_xml(Opt) ==
  /\ call = Idle
  /\ \E kv \in KeyVals, tv \in TidVals, x \in {Junk, Str(GoodXml), Str(BadXml)},
        o \in Opt, res \in {-1, 0} :
       \E doc \in (IF x = Str(GoodXml) THEN {TmpDoc, NULL} ELSE {NULL}) :
         Step("sign_xml", <<kv, tv, x>> \o o,
              sign_xml(<<kv, tv, x>> \o o, doc, res, GoodXml))

Call_verify_binary ==
  /\ call = Idle
  /\ \E kv \in KeyVals, tv \in TidVals,
        d \in {<<>>, <<Str("data")>>, <<Str("data"), Str("sig")>>}, res \in Codes :
       Step("verify_binary", <<kv, tv>> \o d, verify_binary(<<kv, tv>> \o d, res))

Call_verify_doc(Opt) ==
  /\ call = Idle
  /\ \E mv \in MngrVals, dv \in DocVals, o \in Opt, res \in Codes :
       Step("verify_doc", <<mv, dv>> \o o, verify_doc(<<mv, dv>> \o o, res))

\* The caller takes the values returned (or the error raised) and goes on.
Resume ==
  /\ call # Idle
  /\ call' = Idle
  /\ UNCHANGED <<lib, inits, shutdowns, docs, keys, adopted, released, mngrs>>

---------------------------------------------------------------------------
\* The whole module: every exported function, with the basic argument shapes.
Next ==
  \/ Call_init
  \/ Call_shutdown
  \/ Call_parse
  \/ Call_parse_file
  \/ Call_serialize
  \/ Call_free_doc
  \/ Call_validate_doc
  \/ Call_issuer
  \/ Call_session_index
  \/ Call_attrs(FewAttrLists)
  \/ Call_load_key
  \/ Call_load_key_file
  \/ Call_key_load_cert
  \/ Call_key_load_cert_file
  \/ Call_load_cert
  \/ Call_load_cert_file
  \/ Call_create_keys_mngr(1)
  \/ Call_find_transform_by_href
  \/ Call_sign_binary
  \/ Call_sign_doc(FewOptTail)
  \/ Call_sign_xml(FewOptTail)
  \/ Call_verify_binary
  \/ Call_verify_doc(FewOptTail)
  \/ Resume

Spec == Init /\ [][Next]_vars

\* The key store: loading keys and certificates and building keys managers
\* from lists of up to MaxKeyList elements.
NextKeys ==
  \/ Call_load_key
  \/ Call_load_key_file
  \/ Call_key_load_cert
  \/ Call_key_load_cert_file
  \/ Call_load_cert
  \/ Call_load_cert_file
  \/ Call_create_keys_mngr(MaxKeyList)
  \/ Resume

SpecKeys == Init /\ [][NextKeys]_vars

\* Signing, with every shape of the options argument.
NextSign ==
  \/ Call_parse
  \/ Call_load_key
  \/ Call_find_transform_by_href
  \/ Call_sign_binary
  \/ Call_sign_doc(OptTail)
  \/ Call_sign_xml(OptTail)
  \/ Call_verify_binary
  \/ Resume

SpecSign == Init /\ [][NextSign]_vars

\* Verifying, and the options of the two document operations.
NextVerify ==
  \/ Call_parse
  \/ Call_load_cert_file
  \/ Call_create_keys_mngr(1)
  \/ Call_find_transform_by_href
  \/ Call_sign_doc(OptTail)
  \/ Call_verify_binary
  \/ Call_verify_doc(OptTail)
  \/ Resume

SpecVerify == Init /\ [][NextVerify]_vars

\* Attribute extraction over every extraction within the bounds.
NextAttrs ==
  \/ Call_parse
  \/ Call_attrs(AttrLists)
  \/ Resume

SpecAttrs == Init /\ [][NextAttrs]_vars

---------------------------------------------------------------------------
\* Reading the last call.
\* The entries of the last call's trace that name routine fn.
Entries(fn) == {i \in 1..Len(call.trace) : call.trace[i].fn = fn}
\* The i-th argument as the handler sees it after lua_settop(L, n).
Arg(i, n) == SetTop(call.args, n)[i]
Lookup(f, k) == IF k \in DOMAIN f THEN f[k] ELSE Nil

---------------------------------------------------------------------------
\* C1 (as claimed): create_keys_manager is atomic on failure.  Whenever the
\* call returns no manager handle (an error is raised or nil is returned), every
\* manager xmlSecKeysMngrCreate allocated in the call has been destroyed by
\* the call; and a manager handle is returned only when every element of the
\* list was adopted.
C1_CreateKeysManagerAtomic ==
  call.op = "create_keys_manager" =>
    LET created == {call.trace[i].res : i \in Entries("xmlSecKeysMngrCreate")} \ {NULL}
        destroyed == {call.trace[i].mngr : i \in Entries("xmlSecKeysMngrDestroy")}
        adoptions == {i \in Entries("xmlSecCryptoAppDefaultKeysMngrAdoptKey") :
                        call.trace[i].res = 0}
        returned == ~call.raised /\ call.ret[1].t = "lud"
    IN /\ ~returned => created \subseteq destroyed
       /\ returned => Cardinality(adoptions) = ObjLen(Arg(1, 1))

\* C2 (as claimed): verify_binary and verify_doc map the result code r of
\* the verify routine to exactly three outcomes: r < 0 to (nil, error string),
\* r = 0 to (true, nil) and every r > 0 to (false, nil).
C2_VerifyThreeOutcomes ==
  /\ call.op \in {"verify_binary", "verify_doc"}
  /\ call.trace # <<>>
  => LET r == call.trace[1].res IN
     /\ r < 0 => call.ret = <<Nil, Str("saml verify failed")>>
     /\ r = 0 => call.ret = <<Bool(TRUE), Nil>>
     /\ r > 0 => call.ret = <<Bool(FALSE), Nil>>

\* C3 (as claimed): sign_xml never leaks the document it parsed.  Whenever
\* xmlReadMemory returned a document in the call, the call has released that
\* document exactly once by the time it ends, however it ends.
C3_SignXmlReleasesDoc ==
  /\ call.op = "sign_xml"
  /\ call.trace # <<>>
  /\ call.trace[1].res # NULL
  => Cardinality({i \in Entries("xmlFreeDoc") :
                    call.trace[i].doc = call.trace[1].res}) = 1

\* An attrs call in which saml_doc_attrs succeeded: the array it extracted and
\* the string-keyed entries of the table returned.
AttrsExtracted ==
  call.op = "attrs" /\ ~call.raised /\ call.trace # <<>> /\ call.trace[1].res >= 0
Extracted == call.trace[1].attrs
AttrsResult == call.ret[1].f
Named == {i \in 1..Len(Extracted) : Extracted[i].name # NullStr}
\* The attributes no later attribute of the same name follows.
LastNamed == {i \in Named : \A k \in (i + 1)..Len(Extracted) :
                               Extracted[k].name # Extracted[i].name}

\* C4 (as claimed): attrs maps every extracted attribute with a non-null
\* name to a value whose shape depends only on its number of values n (n = 0:
\* null, n = 1: the scalar string, n >= 2: the list of the values in document
\* order), and the table returned has one entry per extracted attribute name.
C4_AttrsShapeByCountOnly ==
  AttrsExtracted =>
    /\ \A i \in Named :
         LET vs == Extracted[i].values
             v == Lookup(AttrsResult, Extracted[i].name)
         IN /\ Len(vs) = 0 => IsNil(v)
            /\ Len(vs) = 1 => v = Str(vs[1])
            /\ Len(vs) >= 2 => /\ IsTable(v)
                               /\ DOMAIN v.arr = 1..Len(vs)
                               /\ \A j \in 1..Len(vs) : v.arr[j] = Str(vs[j])
    /\ Cardinality(DOMAIN AttrsResult) = Cardinality({Extracted[i].name : i \in Named})

\* What the amended C4 expects under the name of attribute at: nil for no
\* value or a single null value, the scalar for a single value, and for two
\* or more values a list holding the j-th value at position j and nothing at
\* the position of a null value.
C4_Holds(v, vs) ==
  /\ Len(vs) = 0 => IsNil(v)
  /\ Len(vs) = 1 => v = (IF vs[1] = NullStr THEN Nil ELSE Str(vs[1]))
  /\ Len(vs) >= 2 => /\ IsTable(v)
                     /\ DOMAIN v.arr = {j \in 1..Len(vs) : vs[j] # NullStr}
                     /\ \A j \in DOMAIN v.arr : v.arr[j] = Str(vs[j])

\* C4 (amended): attrs maps every extracted attribute with a non-null name
\* that is the last of its name to: nil (no entry in the table) for n = 0; the
\* scalar string for n = 1, or nil when that value is null; for n >= 2 a list
\* with the j-th value at position j, in document order, the positions of
\* null values left empty.  The table has exactly one entry per name whose
\* last attribute gives a non-nil value, so no attributes give an empty
\* table; only a failure of saml_doc_attrs gives nil.
C4_AttrsShape ==
  /\ AttrsExtracted =>
       /\ \A i \in LastNamed :
            C4_Holds(Lookup(AttrsResult, Extracted[i].name), Extracted[i].values)
       /\ DOMAIN AttrsResult =
            {Extracted[i].name :
               i \in {k \in LastNamed :
                        /\ Len(Extracted[k].values) >= 1
                        /\ ~(Len(Extracted[k].values) = 1
                             /\ Extracted[k].values[1] = NullStr)}}
       /\ IsTable(call.ret[1])
  /\ (call.op = "attrs" /\ call.trace # <<>> /\ call.trace[1].res < 0)
       => call.ret = <<Nil>>

\* C4 witness: an extraction with an attribute of two distinct values and
\* another attribute, of another name, without values.
C4_Witness ==
  /\ AttrsExtracted
  /\ \E i, k \in Named :
       /\ Extracted[i].name # Extracted[k].name
       /\ Len(Extracted[i].values) = 2
       /\ Extracted[i].values[1] # NullStr
       /\ Extracted[i].values[2] # NullStr
       /\ Extracted[i].values[1] # Extracted[i].values[2]
       /\ Len(Extracted[k].values) = 0

\* The backend routines that sign or verify.
SignVerifyFns ==
  {"saml_sign_binary", "saml_sign_doc", "saml_verify_binary", "saml_verify_doc"}

\* C5: find_transform_by_href returns nil, without raising, for every href
\* the registry does not hold; and sign_binary, sign_doc, sign_xml and
\* verify_binary called with a null transform id (nil, as
\* find_transform_by_href returns it) raise an argument error with no backend
\* sign or verify routine invoked.
C5_UnsupportedAlgorithm ==
  /\ (/\ call.op = "find_transform_by_href"
      /\ IsString(Arg(1, 1))
      /\ ToLString(Arg(1, 1)) # RsaSha256Href)
     => (~call.raised /\ call.ret = <<Nil>>)
  /\ (/\ call.op \in {"sign_binary", "sign_doc", "sign_xml", "verify_binary"}
      /\ ToUserdata(Arg(2, 2)) = NULL)
     => (call.raised /\ Fns(call.trace) \cap SignVerifyFns = {})

\* C5 witness: sign_binary called with a key handle, the nil an unknown href
\* resolves to, and data.
C5_Witness ==
  /\ call.op = "sign_binary"
  /\ Len(call.args) = 3
  /\ ToUserdata(call.args[1]) # NULL
  /\ IsNil(call.args[2])
  /\ IsString(call.args[3])
  /\ call.raised

\* C6 (as claimed): load_cert and load_cert_file return the same kind of
\* result: a handle wrapping the key when the backend load returns one, and
\* nil when it returns NULL; never a handle that wraps NULL.
C6_LoadCertKeyOrNil ==
  /\ call.op \in {"load_cert", "load_cert_file"}
  /\ call.trace # <<>>
  => LET k == call.trace[1].res IN
     /\ k # NULL => call.ret = <<LUD(k)>>
     /\ k = NULL => call.ret = <<Nil>>

\* The options of a sign_doc or verify_doc call name no id_attr: they are left
\* out, nil, or a table without fields.
NoIdAttr(n) ==
  \/ Len(call.args) < n
  \/ IsNil(call.args[n])
  \/ call.args[n] = Table(NoFields, <<>>)

\* C7 (as claimed): for sign_doc and verify_doc alike, a call whose other
\* arguments are handles and whose options are omitted, nil, or a table
\* without id_attr raises no error and reaches the engine with id_attr unset.
C7_OptionsOptional ==
  /\ (/\ call.op = "sign_doc"
      /\ ToUserdata(Arg(1, 4)) # NULL
      /\ ToUserdata(Arg(2, 4)) # NULL
      /\ ToUserdata(Arg(3, 4)) # NULL
      /\ NoIdAttr(4))
     => /\ ~call.raised
        /\ Entries("saml_sign_doc") = {1}
        /\ call.trace[1].id_attr = NullStr
  /\ (/\ call.op = "verify_doc"
      /\ ToUserdata(Arg(1, 3)) # NULL
      /\ ToUserdata(Arg(2, 3)) # NULL
      /\ NoIdAttr(3))
     => /\ ~call.raised
        /\ Entries("saml_verify_doc") = {1}
        /\ call.trace[1].id_attr = NullStr

\* C8 (as claimed): whatever create_keys_manager calls were made, every key
\* has been adopted into at most one keys manager and released by a destroyed
\* manager at most once.
C8_KeyOwnershipExclusive ==
  \A k \in KeyPtr :
    /\ Cardinality({m \in MngrPtr : adopted[k][m] > 0}) <= 1
    /\ released[k] <= 1

\* C9 (as claimed): init and shutdown bracket all other calls.  A function
\* other than init and shutdown called while the libraries are not
\* initialized (before a successful init, after shutdown) fails without
\* reaching the backend; and the backend is initialized at most once and
\* shut down at most once.
C9_InitShutdownBracket ==
  /\ (call.op \notin {"none", "init", "shutdown"} /\ lib # "ready")
     => (call.trace = <<>> /\ call.raised)
  /\ inits <= 1
  /\ shutdowns <= 1

\* The functions that take a document handle, with the position of the
\* handle and the number of parameters.
DocOps ==
  {"serialize", "free_doc", "validate_doc", "issuer", "session_index", "attrs",
   "sign_doc", "verify_doc"}
DocArgAt(op) == IF op = "sign_doc" THEN 3 ELSE IF op = "verify_doc" THEN 2 ELSE 1

\* C10 (as claimed): every function that takes a document handle raises an
\* argument error for a null or absent handle, and invokes no backend routine
\* on a null document.
C10_NullDocRejected ==
  call.op \in DocOps =>
    /\ ToUserdata(Arg(DocArgAt(call.op), 4)) = NULL => call.raised
    /\ \A i \in 1..Len(call.trace) :
         "doc" \in DOMAIN call.trace[i] => call.trace[i].doc # NULL

=============================================================================
